---- MODULE Spec2Model ----
(***************************************************************************)
(* The two custom acquisition functions of the tutorial notebook           *)
(* tutorials/custom_acquisition/custom_acquisition.ipynb:                  *)
(*   qScalarizedUpperConfidenceBound  (Monte Carlo, any q)                 *)
(*   ScalarizedUpperConfidenceBound   (analytic, q = 1 only)               *)
(*                                                                         *)
(* Numbers.  Tensor entries are integers: "+", "-", "*" and abs are exact, *)
(* sqrt and the division of mean() round down to the next representable   *)
(* value.  The square root of a negative tensor entry is NaN (torch), the  *)
(* square root of a negative Python float is an exception (math.sqrt).     *)
(* A tensor that holds beta carries its dtype: float64 represents every    *)
(* value of the model, float32 only the even ones, so that a conversion to *)
(* float32 rounds.  The dtype of weights and of the posterior is not       *)
(* modelled.                                                               *)
(*                                                                         *)
(* Tensors are nested sequences, outermost dimension first.  A design      *)
(* point (the d-dimensional last axis of X) is one element of Points; the  *)
(* fitted model maps a point to its posterior.                             *)
(***************************************************************************)
EXTENDS Integers, Sequences, FiniteSets

\* ------------------------------------------------------------------ bounds
MaxO == 2       \* model outputs o, and the weight vector's length
MaxB == 2       \* size of the t-batch dimension
MaxQ == 2       \* candidates per t-batch
MaxN == 2       \* posterior samples drawn by the sampler

\* --------------------------------------------------------- input domains
Points     == {1, 2}
Seeds      == {0, 1}
DTypes     == {"float64", "float32"}
WeightVals == {-1, 2}
BetaVals   == {-1, 0, 2, 3}

\* None, as a value of acqf, ctor, call and result.
None == [cls |-> "None", status |-> "None"]

\* A float that may be NaN: << v >> for the number v, << >> for NaN.
NaN    == << >>
Num(v) == << v >>

VARIABLES
  model,    \* the fitted multi-output model: [num_outputs]
  acqf,     \* the acquisition function object, None before construction
  ctor,     \* the arguments its constructor was given (history)
  call,     \* the forward call being evaluated: [X, seed], or None
  result    \* what that call produced: scores or an error, or None

vars == <<model, acqf, ctor, call, result>>

\* ------------------------------------------------------- scalar helpers
Abs(x) == IF x < 0 THEN -x ELSE x

ISqrt(x) == CHOOSE r \in 0..x : r * r <= x /\ (r + 1) * (r + 1) > x

\* Tensor.sqrt(): NaN for a negative entry.
TensorSqrt(x) == IF x < 0 THEN NaN ELSE Num(ISqrt(x))

\* x + y and x - y for a number x and a float y that may be NaN.
AddT(x, y) == IF y = NaN THEN NaN ELSE Num(x + y[1])
SubT(x, y) == IF y = NaN THEN NaN ELSE Num(x - y[1])

\* The values a dtype represents, and the rounding of a conversion to it.
Round(v, dtype) == IF dtype = "float64" THEN v ELSE 2 * ((v + 1) \div 2)

Representable(v, dtype) == Round(v, dtype) = v

\* Tensor.to(X) on a 0-dim tensor [value, dtype]: X's dtype, value rounded.
To(t, X) == [value |-> Round(t.value, X.dtype), dtype |-> X.dtype]

\* beta * math.pi / 2 as a Python float (pi = 355/113).
HalfPiTimes(b) == (b * 355) \div (2 * 113)

\* ------------------------------------------------------- tensor helpers
RECURSIVE SeqSum(_)
SeqSum(s) == IF s = <<>> THEN 0 ELSE Head(s) + SeqSum(Tail(s))

RECURSIVE SeqMax(_)
SeqMax(s) == IF Len(s) = 1 THEN s[1]
             ELSE LET m == SeqMax(Tail(s)) IN IF s[1] >= m THEN s[1] ELSE m

RECURSIVE SeqProd(_)
SeqProd(s) == IF s = <<>> THEN 1 ELSE Head(s) * SeqProd(Tail(s))

Dot(u, v) == SeqSum([i \in 1..Len(u) |-> u[i] * v[i]])

\* torch.matmul accepts a vector only of the length of the tensor's last
\* dimension (no broadcasting along the contracted dimension).
MatmulOk(last_dim, w) == last_dim = Len(w)

\* torch.matmul of a tensor whose last dimension is contracted with a vector.
Matmul2(M, w) == [i \in 1..Len(M) |-> Dot(M[i], w)]
Matmul3(T, w) == [i \in 1..Len(T) |-> Matmul2(T[i], w)]
Matmul4(T, w) == [i \in 1..Len(T) |-> Matmul3(T[i], w)]

\* torch.bmm of b x n x m with b x m x p.
Bmm(A, B) ==
  [b \in 1..Len(A) |->
     [i \in 1..Len(A[b]) |->
        [j \in 1..Len(B[b][1]) |->
           SeqSum([k \in 1..Len(B[b]) |-> A[b][i][k] * B[b][k][j]])]]]

\* Tensor.view(1, -1, 1) of a vector: 1 x o x 1.
View1o1(w) == << [i \in 1..Len(w) |-> << w[i] >>] >>

\* Tensor.expand(b, o, 1) of a 1 x o x 1 tensor.
Expand(T, b) == [i \in 1..b |-> T[1]]

\* (mutant) the t-batch dimensions flattened into one:
\* weights.expand(batch_shape.numel(), -1, -1).
ExpandedShape_FlatMut(batch_shape, weights) ==
  << SeqProd(batch_shape), Len(weights), 1 >>

\* The shape of weights.expand(batch_shape + weights.shape[1:]) for the
\* 1 x o x 1 weights: the dimensions of batch_shape, then o x 1.  (A leading
\* 1 expands to any size and further dimensions are added in front, so that
\* expand accepts every batch_shape of at least one dimension.)
ExpandedShape(batch_shape, weights) == batch_shape \o << Len(weights), 1 >>

\* Tensor.permute(0, 2, 1) accepts a tensor of exactly three dimensions.
PermuteOk(shape) == Len(shape) = 3

\* Tensor.permute(0, 2, 1) of a 3-dim tensor.
Permute021(T) ==
  [b \in 1..Len(T) |->
     [j \in 1..Len(T[b][1]) |-> [i \in 1..Len(T[b]) |-> T[b][i][j]]]]

\* ------------------------------------------------ the fitted model (GP)
\* Posterior mean of output k at design point p.
PosteriorMean(p, k) == ((2 * p + 3 * k) % 5) - 2

\* Lower-triangular factor L of the o x o posterior covariance at point p;
\* the covariance L L^T is symmetric positive semi-definite.
CovFactor(p, i, j) == IF j > i THEN 0 ELSE ((p + i + 2 * j) % 3) - 1

CovAt(p, o) ==
  [i \in 1..o |->
     [j \in 1..o |->
        SeqSum([k \in 1..o |-> CovFactor(p, i, k) * CovFactor(p, j, k)])]]

\* model.posterior(X) for X with an explicit t-batch dimension:
\* mean is b x q x o; for q = 1 mvn.covariance_matrix is b x o x o.
Posterior(m, X) ==
  [mean |->
     [b \in 1..Len(X.pts) |->
        [j \in 1..X.q |->
           [k \in 1..m.num_outputs |-> PosteriorMean(X.pts[b][j], k)]]],
   covariance_matrix |->
     [b \in 1..Len(X.pts) |-> CovAt(X.pts[b][1], m.num_outputs)]]

\* One draw's deviation from the mean, fixed by the sampler's seed.
SampleDev(seed, n, b, j, k) == ((seed + 2 * n + 3 * b + n * j + j * k) % 5) - 2

\* get_posterior_samples(posterior): n x b x q x o.
GetPosteriorSamples(sampler, posterior, seed) ==
  [n \in 1..sampler.sample_shape |->
     [b \in 1..Len(posterior.mean) |->
        [j \in 1..Len(posterior.mean[b]) |->
           [k \in 1..Len(posterior.mean[b][j]) |->
              posterior.mean[b][j][k] + SampleDev(seed, n, b, j, k)]]]]

\* ------------------------------------------------------------- inputs
NumBatch(batch_shape) == SeqProd(batch_shape)

\* q consecutive design points starting at p0.
Row(q, p0) == [j \in 1..q |-> ((p0 + j - 2) % Cardinality(Points)) + 1]

\* No t-batch dimension, one (b), or two (b1 x b2).
BatchShapes ==
  {<< >>} \cup {<< b >> : b \in 1..MaxB}
          \cup {<< b1, b2 >> : b1 \in 1..MaxB, b2 \in 1..MaxB}

\* The first design point of every t-batch element, the elements of a
\* b1 x b2 batch in row-major order: any points for at most one t-batch
\* dimension, consecutive points from any first one for two.
Starts(bs) ==
  IF Len(bs) <= 1
  THEN [1..NumBatch(bs) -> Points]
  ELSE {[b \in 1..NumBatch(bs) |-> ((p0 + b - 2) % Cardinality(Points)) + 1] :
          p0 \in Points}

\* A (b) x q x d input: its t-batch shape, q, dtype and design points
\* (one row of q points per t-batch element).
XInputs ==
  UNION {
    { [batch_shape |-> bs, q |-> q, dtype |-> dt,
       pts |-> [b \in 1..NumBatch(bs) |-> Row(q, st[b])]] :
        st \in Starts(bs) } :
    <<bs, q, dt>> \in BatchShapes \X (1..MaxQ) \X DTypes }

WeightVecs == UNION {[1..L -> WeightVals] : L \in 1..MaxO}

\* 0-dim tensors holding beta: a value and a dtype that represents it.
BetaTensors ==
  {[value |-> v, dtype |-> dt] : <<v, dt>> \in
      {vd \in BetaVals \X DTypes : Representable(vd[1], vd[2])}}

\* ------------------------------------------------------------ results
\* A returned tensor of scores, with the locals of forward the properties
\* read (the scalarized mean and variance).
Ok(scores, locals) == [status |-> "ok", scores |-> scores, locals |-> locals]
Error(kind) == [status |-> "error", error |-> kind]

ShapeError  == "RuntimeError: size mismatch"
DimsError   == "RuntimeError: number of dims don't match in permute"
QError      == "AssertionError: expected X to be batch_shape x q=1 x d"
DomainError == "ValueError: math domain error"

\* ------------------------------------------------ t_batch_mode_transform
\* The decorator: rejects an X whose q is not expected_q (when one is given:
\* expected_q is {} for None and {q} for q), and adds the t-batch dimension
\* to an X that has none.
TBatchModeTransform(expected_q, X) ==
  IF expected_q # {} /\ X.q \notin expected_q
  THEN Error(QError)
  ELSE IF Len(X.batch_shape) = 0
       THEN [X EXCEPT !.batch_shape = << 1 >>]
       ELSE X

IsError(r) == "status" \in DOMAIN r /\ r.status = "error"
IsOk(r)    == "status" \in DOMAIN r /\ r.status = "ok"

\* ---------------------------------------- qScalarizedUpperConfidenceBound
\* (mutant) a constructor that checks the weights against the model's outputs
\* and constructs nothing on a mismatch.
qSUCB_init_CheckMut(m, beta, weights, sampler) ==
  IF Len(weights) # m.num_outputs THEN None
  ELSE [cls |-> "qSUCB", model |-> m, sampler |-> sampler,
        beta |-> beta, weights |-> weights]

\* __init__: no validity check; beta and weights are registered as given.
qSUCB_init(m, beta, weights, sampler) ==
  [cls |-> "qSUCB", model |-> m, sampler |-> sampler,
   beta |-> beta, weights |-> weights]

\* (mutant) the signed deviation instead of its absolute value.
UcbSamples_NoAbsMut(coef, scalarized_samples, scalarized_mean) ==
  [n \in 1..Len(scalarized_samples) |->
     [b \in 1..Len(scalarized_mean) |->
        [j \in 1..Len(scalarized_mean[b]) |->
           scalarized_mean[b][j]
             + coef * (scalarized_samples[n][b][j] - scalarized_mean[b][j])]]]

\* scalarized_mean + math.sqrt(beta * pi / 2) * |scalarized_samples -
\* scalarized_mean|, the b x q mean broadcast over the n samples: n x b x q.
UcbSamples(coef, scalarized_samples, scalarized_mean) ==
  [n \in 1..Len(scalarized_samples) |->
     [b \in 1..Len(scalarized_mean) |->
        [j \in 1..Len(scalarized_mean[b]) |->
           scalarized_mean[b][j]
             + coef * Abs(scalarized_samples[n][b][j] - scalarized_mean[b][j])]]]

\* (mutant) the maximum over the first (sample) dimension: b x q.
MaxLastDim_Dim0Mut(T) ==
  [b \in 1..Len(T[1]) |->
     [j \in 1..Len(T[1][b]) |-> SeqMax([n \in 1..Len(T) |-> T[n][b][j]])]]

\* Tensor.max(dim=-1)[0] of an n x b x q tensor: n x b.
MaxLastDim(T) ==
  [n \in 1..Len(T) |-> [b \in 1..Len(T[n]) |-> SeqMax(T[n][b])]]

\* Tensor.mean(dim=0) of an n x b tensor: b.
MeanDim0(T) ==
  [b \in 1..Len(T[1]) |-> SeqSum([n \in 1..Len(T) |-> T[n][b]]) \div Len(T)]

\* (mutant) the average over the samples first, then the maximum over the
\* candidates: mean(dim=0).max(dim=-1)[0].
MaxThenMean_MeanFirstMut(ucb_samples) ==
  [b \in 1..Len(ucb_samples[1]) |->
     SeqMax([j \in 1..Len(ucb_samples[1][b]) |->
               SeqSum([n \in 1..Len(ucb_samples) |-> ucb_samples[n][b][j]])
                 \div Len(ucb_samples)])]

\* ucb_samples.max(dim=-1)[0].mean(dim=0)
MaxThenMean(ucb_samples) == MeanDim0(MaxLastDim(ucb_samples))

\* The body of forward, on an X with an explicit t-batch dimension.
qSUCB_body(self, X, seed) ==
  LET posterior == Posterior(self.model, X)
      samples == GetPosteriorSamples(self.sampler, posterior, seed)
      mean == posterior.mean
  IN IF ~MatmulOk(self.model.num_outputs, self.weights)
     THEN Error(ShapeError)
     ELSE
       LET scalarized_samples == Matmul4(samples, self.weights)
           scalarized_mean == Matmul3(mean, self.weights)
       IN IF HalfPiTimes(self.beta.value) < 0
          THEN Error(DomainError)
          ELSE
            LET ucb_samples ==
                  UcbSamples(ISqrt(HalfPiTimes(self.beta.value)),
                             scalarized_samples, scalarized_mean)
            IN Ok(MaxThenMean(ucb_samples),
                  [scalarized_mean |-> scalarized_mean])

\* forward under @t_batch_mode_transform(): any q.
qSUCB_forward(self, X, seed) ==
  LET Xb == TBatchModeTransform({}, X)
  IN IF IsError(Xb) THEN Xb ELSE qSUCB_body(self, Xb, seed)

\* ----------------------------------------- ScalarizedUpperConfidenceBound
\* (mutant) the decorator without expected_q.
SUCB_expected_q_NoneMut == {}

\* expected_q=1
SUCB_expected_q == {1}

\* __init__: no validity check; beta, weights and maximize are kept as given.
SUCB_init(m, beta, weights, maximize) ==
  [cls |-> "SUCB", model |-> m, maximize |-> maximize,
   beta |-> beta, weights |-> weights]

\* (mutant) the covariance of the first batch element used for all of them.
ScalarizedVariance_FirstBatchMut(covs, weights, batch_shape) ==
  LET w1o1 == View1o1(weights)
      weights_transpose == Permute021(w1o1)
      prod == Bmm(weights_transpose, Bmm(<< covs[1] >>, w1o1))
  IN [b \in 1..NumBatch(batch_shape) |-> prod[1][1][1]]

\* weights_transpose bmm (covs bmm weights), viewed as batch_shape: b.
ScalarizedVariance(covs, weights, batch_shape) ==
  LET w1o1 == View1o1(weights)
      wexp == Expand(w1o1, NumBatch(batch_shape))
      weights_transpose == Permute021(wexp)
      prod == Bmm(weights_transpose, Bmm(covs, wexp))
  IN [b \in 1..NumBatch(batch_shape) |-> prod[b][1][1]]

\* (mutant) beta added to the variance instead of multiplied with it.
Delta_SumMut(beta, scalarized_mean, scalarized_variance) ==
  [b \in 1..Len(scalarized_mean) |->
     TensorSqrt(beta.value + scalarized_variance[b])]

\* (self.beta.expand_as(scalarized_mean) * scalarized_variance).sqrt(): b.
Delta(beta, scalarized_mean, scalarized_variance) ==
  [b \in 1..Len(scalarized_mean) |->
     TensorSqrt(beta.value * scalarized_variance[b])]

\* scalarized_mean + delta if maximize, else scalarized_mean - delta.
Score(maximize, scalarized_mean, delta) ==
  [b \in 1..Len(scalarized_mean) |->
     IF maximize THEN AddT(scalarized_mean[b], delta[b])
                 ELSE SubT(scalarized_mean[b], delta[b])]

\* The body of forward: the object as the call leaves it, and the result.
SUCB_body(self, X) ==
  LET self1 == [self EXCEPT !.beta = To(self.beta, X)]
      batch_shape == X.batch_shape
      posterior == Posterior(self.model, X)
      means == [b \in 1..Len(posterior.mean) |-> posterior.mean[b][1]]
      covs == posterior.covariance_matrix
  IN IF ~MatmulOk(self.model.num_outputs, self1.weights)
     THEN [self |-> self1, result |-> Error(ShapeError)]
     ELSE IF ~PermuteOk(ExpandedShape(batch_shape, self1.weights))
     THEN [self |-> self1, result |-> Error(DimsError)]
     ELSE
       LET scalarized_mean == Matmul2(means, self1.weights)
           scalarized_variance ==
             ScalarizedVariance(covs, self1.weights, batch_shape)
           delta == Delta(self1.beta, scalarized_mean, scalarized_variance)
       IN [self |-> self1,
           result |-> Ok(Score(self1.maximize, scalarized_mean, delta),
                         [scalarized_mean |-> scalarized_mean,
                          scalarized_variance |-> scalarized_variance])]

\* forward under @t_batch_mode_transform(expected_q=1).
SUCB_forward(self, X) ==
  LET Xb == TBatchModeTransform(SUCB_expected_q, X)
  IN IF IsError(Xb) THEN [self |-> self, result |-> Xb]
     ELSE SUCB_body(self, Xb)

\* ------------------------------------------------------------ actions
Init ==
  /\ model \in [num_outputs : 1..MaxO]
  /\ acqf = None
  /\ ctor = None
  /\ call = None
  /\ result = None

Construct_qSUCB ==
  /\ acqf = None
  /\ \E beta \in BetaTensors, weights \in WeightVecs, n \in 1..MaxN :
       /\ acqf' = qSUCB_init(model, beta, weights, [sample_shape |-> n])
       /\ ctor' = [beta |-> beta, weights |-> weights]
  /\ UNCHANGED <<model, call, result>>

Construct_SUCB ==
  /\ acqf = None
  /\ \E beta \in BetaTensors, weights \in WeightVecs, maximize \in BOOLEAN :
       /\ acqf' = SUCB_init(model, beta, weights, maximize)
       /\ ctor' = [beta |-> beta, weights |-> weights, maximize |-> maximize]
  /\ UNCHANGED <<model, call, result>>

\* forward reads X only through model.posterior and never its dtype: the
\* input is drawn in the dtype of the object's buffers.  Its reductions run
\* over the sample and the q dimension whatever the number of t-batch
\* dimensions: the input is drawn with at most one.
Call_qSUCB ==
  /\ acqf # None
  /\ acqf.cls = "qSUCB"
  /\ call = None
  /\ \E X \in XInputs, seed \in Seeds :
       /\ X.dtype = acqf.beta.dtype
       /\ Len(X.batch_shape) <= 1
       /\ call' = [X |-> X, seed |-> seed]
       /\ result' = qSUCB_forward(acqf, X, seed)
  /\ UNCHANGED <<model, acqf, ctor>>

\* forward converts beta to the dtype of X: the input is drawn in any dtype.
Call_SUCB ==
  /\ acqf # None
  /\ acqf.cls = "SUCB"
  /\ call = None
  /\ \E X \in XInputs :
       LET out == SUCB_forward(acqf, X)
       IN /\ call' = [X |-> X]
          /\ acqf' = out.self
          /\ result' = out.result
  /\ UNCHANGED <<model, ctor>>

\* The caller takes the result; the call's values are discarded.
Return ==
  /\ call # None
  /\ call' = None
  /\ result' = None
  /\ UNCHANGED <<model, acqf, ctor>>

Next ==
  \/ Construct_qSUCB
  \/ Construct_SUCB
  \/ Call_qSUCB
  \/ Call_SUCB
  \/ Return

Spec == Init /\ [][Next]_vars

\* ===================================================================
\* Properties
\* ===================================================================
RECURSIVE SumOver(_, _)
SumOver(f, S) ==
  IF S = {} THEN 0
  ELSE LET x == CHOOSE y \in S : TRUE IN f[x] + SumOver(f, S \ {x})

MaxOver(f, S) == CHOOSE m \in {f[x] : x \in S} : \A x \in S : f[x] <= m

\* sum_i w[i] * v[i]
WSum(w, v) == SumOver([i \in DOMAIN w |-> w[i] * v[i]], DOMAIN w)

\* sum_i sum_j w[i] * S[i][j] * w[j]
QuadForm(w, S) ==
  SumOver([i \in DOMAIN w |->
             SumOver([j \in DOMAIN w |-> w[i] * S[i][j] * w[j]], DOMAIN w)],
          DOMAIN w)

\* A forward call of the class is being evaluated / has returned scores.
Called(cls) == acqf.cls = cls /\ call # None
Returned(cls) == Called(cls) /\ IsOk(result)

\* The t-batch elements of the call's input: one when X has no t-batch
\* dimension, b when its t-batch shape is (b), b1 * b2 when it is (b1, b2).
BatchElems == 1..NumBatch(call.X.batch_shape)

Outputs == 1..model.num_outputs

\* The posterior mean vector and covariance matrix of candidate j of
\* t-batch element b of the call's input.
Mu(b, j) == [k \in Outputs |-> PosteriorMean(call.X.pts[b][j], k)]
Sigma(b) == CovAt(call.X.pts[b][1], model.num_outputs)

\* C1: with beta = 0, ScalarizedUpperConfidenceBound.forward returns for each
\* batch element exactly the weighted sum of the posterior means, for either
\* value of maximize.
C1_BetaZeroIsScalarizedMean ==
  (Returned("SUCB") /\ acqf.beta.value = 0) =>
    /\ DOMAIN result.scores = BatchElems
    /\ \A b \in BatchElems :
         result.scores[b] = Num(WSum(acqf.weights, Mu(b, 1)))

\* C1 witness: a beta = 0 evaluation of two batch elements, one of them with
\* a positive scalarized variance.
C1_Witness ==
  /\ Returned("SUCB")
  /\ acqf.beta.value = 0
  /\ Len(result.scores) = 2
  /\ model.num_outputs = 2
  /\ \E b \in BatchElems : QuadForm(acqf.weights, Sigma(b)) > 0

\* The scores of the call's input under the other value of maximize.
OtherScores ==
  SUCB_forward([acqf EXCEPT !.maximize = ~acqf.maximize], call.X).result.scores

\* C2: the analytic score is scalarized_mean + sqrt(beta * variance) when
\* maximizing and scalarized_mean - sqrt(beta * variance) when minimizing, so
\* the maximize score is never below the minimize score and the two sum to
\* twice the scalarized mean.
C2_PlusMinusSqrt ==
  Returned("SUCB") =>
    \A b \in BatchElems :
      LET m  == WSum(acqf.weights, Mu(b, 1))
          v  == acqf.beta.value * QuadForm(acqf.weights, Sigma(b))
          hi == IF acqf.maximize THEN result.scores[b] ELSE OtherScores[b]
          lo == IF acqf.maximize THEN OtherScores[b] ELSE result.scores[b]
      IN /\ hi # NaN
         /\ lo # NaN
         /\ hi[1] >= lo[1]
         /\ hi[1] + lo[1] = 2 * m
         /\ v >= 0
         /\ hi = Num(m + ISqrt(v))
         /\ lo = Num(m - ISqrt(v))

\* C3: both acquisition functions return one scalar score per t-batch
\* element: b scores for a t-batch shape (b), one score for an input without
\* a t-batch dimension, whatever o, q and n.
C3_OneScorePerBatchElement ==
  /\ Returned("qSUCB") =>
       /\ DOMAIN result.scores = BatchElems
       /\ \A b \in BatchElems : result.scores[b] \in Int
  /\ Returned("SUCB") =>
       /\ DOMAIN result.scores = BatchElems
       /\ \A b \in BatchElems :
            \/ result.scores[b] = NaN
            \/ Len(result.scores[b]) = 1 /\ result.scores[b][1] \in Int

\* C3 witness: a Monte Carlo evaluation of an input without t-batch
\* dimension, with two candidates, two outputs and two samples.
C3_Witness ==
  /\ Returned("qSUCB")
  /\ call.X.batch_shape = << >>
  /\ call.X.q = 2
  /\ model.num_outputs = 2
  /\ acqf.sampler.sample_shape = 2
  /\ Len(result.scores) = 1

\* The scalarized sample n and the scalarized mean of candidate j of batch
\* element b, and the UCB deviation term built from them.
Draw(n, b, j) ==
  [k \in Outputs |-> Mu(b, j)[k] + SampleDev(call.seed, n, b, j, k)]
SSample(n, b, j) == WSum(acqf.weights, Draw(n, b, j))
SMean(b, j) == WSum(acqf.weights, Mu(b, j))
Coef == ISqrt(HalfPiTimes(acqf.beta.value))
Ucb(n, b, j) == SMean(b, j) + Coef * Abs(SSample(n, b, j) - SMean(b, j))
Draws == 1..acqf.sampler.sample_shape
Cands == 1..call.X.q

\* C4: the Monte Carlo score of batch element b is the average over the
\* samples of the maximum over the candidates of m + sqrt(beta*pi/2)*|s - m|:
\* the maximum is taken inside each sample, then the average over samples.
C4_MeanOfMaxOverCandidates ==
  Returned("qSUCB") =>
    \A b \in BatchElems :
      result.scores[b] =
        SumOver([n \in Draws |-> MaxOver([j \in Cands |-> Ucb(n, b, j)], Cands)],
                Draws) \div Cardinality(Draws)

\* C4 witness: an evaluation where the order matters: the maximum over the
\* candidates of the per-candidate averages differs from the score.
C4_Witness ==
  /\ Returned("qSUCB")
  /\ \E b \in BatchElems :
       result.scores[b] #
         MaxOver([j \in Cands |->
                    SumOver([n \in Draws |-> Ucb(n, b, j)], Draws)
                      \div Cardinality(Draws)], Cands)

\* C6: in the analytic forward the scalarized mean of a batch element is
\* sum_i w[i]*mu[i] and its scalarized variance is the quadratic form
\* sum_i sum_j w[i]*Sigma[i][j]*w[j] of that element's own covariance matrix,
\* with the same weights for every batch element.
C6_WeightedMeanAndQuadraticForm ==
  Returned("SUCB") =>
    \A b \in BatchElems :
      /\ result.locals.scalarized_mean[b] = WSum(acqf.weights, Mu(b, 1))
      /\ result.locals.scalarized_variance[b] = QuadForm(acqf.weights, Sigma(b))

\* C6 witness: two batch elements with different covariance matrices, one of
\* them with a non-zero off-diagonal entry, and different variances.
C6_Witness ==
  /\ Returned("SUCB")
  /\ model.num_outputs = 2
  /\ Len(result.scores) = 2
  /\ Sigma(1) # Sigma(2)
  /\ Sigma(2)[1][2] # 0
  /\ result.locals.scalarized_variance[1] # result.locals.scalarized_variance[2]

\* C7: the analytic forward rejects every input whose q is not 1 with an
\* error and no score; the Monte Carlo forward accepts any q >= 1.
C7_AnalyticRejectsQNot1 ==
  /\ (Called("SUCB") /\ call.X.q # 1) => result = Error(QError)
  /\ (Called("SUCB") /\ call.X.q = 1) => result # Error(QError)
  /\ Called("qSUCB") =>
       /\ result # Error(QError)
       /\ (Len(acqf.weights) = model.num_outputs /\ acqf.beta.value >= 0)
             => IsOk(result)

\* C7 witness: the analytic forward called with q = 2.
C7_Witness ==
  /\ Called("SUCB")
  /\ call.X.q = 2
  /\ IsError(result)

\* C8: weights, the numeric value of beta and maximize are fixed at
\* construction: after any sequence of forward evaluations they equal what the
\* constructor was given (stated for the non-negative beta of the data model).
C8_FixedAtConstruction ==
  (acqf # None /\ ctor.beta.value >= 0) =>
    /\ acqf.weights = ctor.weights
    /\ acqf.beta.value = ctor.beta.value
    /\ acqf.cls = "SUCB" => acqf.maximize = ctor.maximize

\* C9: the beta held by a constructed acquisition function is non-negative.
C9_BetaNonNegative ==
  acqf # None => acqf.beta.value >= 0

\* The errors about a tensor's shape.
ShapeErrors == {ShapeError, QError, DimsError}

\* C10: the constructors accept a weight vector of any length; when its
\* length differs from the model's number of outputs, forward of either class
\* ends in a shape error and returns no score: the size mismatch of matmul,
\* unless the decorator's assertion on the shape of X has rejected the input
\* before (analytic forward, q # 1).
C10_MismatchFailsAtEvaluation ==
  /\ ctor # None => (acqf # None /\ acqf.weights = ctor.weights)
  /\ (call # None /\ Len(acqf.weights) # model.num_outputs) =>
       /\ IsError(result)
       /\ result.error \in ShapeErrors
       /\ result.error =
            IF acqf.cls = "SUCB" /\ call.X.q # 1 THEN QError ELSE ShapeError

\* C10 witness: a Monte Carlo function constructed with one weight for a
\* model of two outputs, whose forward has ended in the size mismatch.
C10_Witness ==
  /\ Called("qSUCB")
  /\ Len(ctor.weights) = 1
  /\ model.num_outputs = 2
  /\ result = Error(ShapeError)

\* The largest scalarized posterior mean among the candidates of element b.
MaxSMean(b) == MaxOver([j \in Cands |-> SMean(b, j)], Cands)

\* C11: for beta >= 0 the Monte Carlo score of a batch element is never below
\* the maximum over its q candidates of the scalarized posterior mean, and at
\* beta = 0 it equals that maximum, whatever the samples and their number.
C11_ScoreAtLeastMaxMean ==
  (Returned("qSUCB") /\ acqf.beta.value >= 0) =>
    \A b \in BatchElems :
      /\ result.scores[b] >= MaxSMean(b)
      /\ acqf.beta.value = 0 => result.scores[b] = MaxSMean(b)

\* C11 witness: beta > 0, two candidates and two samples, a scalarized sample
\* below its scalarized mean, and a score strictly above the largest mean.
C11_Witness ==
  /\ Returned("qSUCB")
  /\ acqf.beta.value > 0
  /\ call.X.q = 2
  /\ acqf.sampler.sample_shape = 2
  /\ \E b \in BatchElems :
       /\ \E n \in Draws, j \in Cands : SSample(n, b, j) < SMean(b, j)
       /\ result.scores[b] > MaxSMean(b)

\* A beta = 0 evaluation whose samples differ from the mean.
C11_WitnessBetaZero ==
  /\ Returned("qSUCB")
  /\ acqf.beta.value = 0
  /\ acqf.sampler.sample_shape = 2
  /\ \E b \in BatchElems, n \in Draws, j \in Cands :
       SSample(n, b, j) # SMean(b, j)

\* The input as the decorator hands it to the body of the analytic forward.
BodyX == TBatchModeTransform(SUCB_expected_q, call.X)

====
